---- MODULE Spec2Model ----
(***************************************************************************)
(* Model of src/dashboard.py: a Streamlit script that polls a curing       *)
(* controller over HTTP, renders its status and dispatches operator        *)
(* commands.  One script run is one "cycle": get_status (behind            *)
(* st.cache_data(ttl=REFRESH_RATE_SECONDS)), get_trend_data, the render,   *)
(* the controls in page order, then time.sleep + st.experimental_rerun.    *)
(*                                                                         *)
(* Time is a discrete clock of whole seconds.  Only differences are kept   *)
(* (the age of the cache entry, the time slept, ...), each saturating at   *)
(* the value beyond which the code no longer distinguishes it.             *)
(***************************************************************************)
EXTENDS Integers, FiniteSets, Sequences, TLC

\* ---------------------------------------------------------------- constants
REFRESH_RATE_SECONDS == 3

STAGES == <<"YELLOWING", "LEAF_DRYING", "MIDRIB_DRYING">>

servo_options == {0, 45, 90, 180}

\* The four manual-override endpoints, in page order.
ManualEndpoints == <<"fan1_toggle", "heater1_toggle", "fan2_toggle", "heater2_toggle">>

\* ------------------------------------------------------------------- bounds
\* How many button clicks the frontend can have coalesced into one rerun.
MaxPending == 1
\* Saturation of the counter of servo POSTs per operator selection.
MaxServoPosts == 2
\* Saturation of the counter of status GETs per freshness window.
MaxWindowGets == 2
\* Saturation of the counter of POSTs per script run.
MaxRunPosts == 2

\* ------------------------------------------------- controller payload domain
ModeValues == {"AUTO", "MANUAL", "SERVICE"}
StageValues == {"YELLOWING", "LEAF_DRYING", "MIDRIB_DRYING"}
AngleValues == {45, 90}
StatusKeys == {"mode", "stage", "servo_angle"}

\* Python's None (returned by get_status / get_trend_data on a request error).
None == [none |-> TRUE]

\* Every JSON object /api/status can answer with: each field is optional.
StatusPayloads ==
    { [k \in K |-> full[k]] :
        K \in SUBSET StatusKeys,
        full \in [mode : ModeValues, stage : StageValues, servo_angle : AngleValues] }

\* What /api/trend_data can answer with, by the shape the code distinguishes:
\* request error (None), no 'timestamps', four aligned arrays, ragged arrays, a
\* missing series key.
TrendOutcomes == {"none", "empty", "aligned", "ragged", "missing_key"}

\* dict.get(key, default)
Get(d, k, default) == IF k \in DOMAIN d THEN d[k] ELSE default

Min(a, b) == IF a < b THEN a ELSE b

\* ------------------------------------------------------------------- state
VARIABLES
    pc,          \* where the script runner is: "start" (about to call get_status),
                 \* "trend", "render", "post" (inside post_control), "sleep",
                 \* "stopped" (after st.stop), "crashed" (uncaught exception)
    data,        \* display_dashboard's local `data`
    trend_data,  \* display_dashboard's local `trend_data`, by shape
    cache,       \* the st.cache_data entry of get_status
    slept,       \* seconds spent so far in time.sleep(REFRESH_RATE_SECONDS)
    pending,     \* buttons clicked in the browser, waiting for the next run
    slider,      \* stored value of the select_slider widget
    cmd,         \* arguments of the post_control call in progress
    screen,      \* what the current run has put on the page
    run,         \* what restarted the script and what the get_status call of
                 \* the new run did; forgotten once the run is past get_status
    okAge,       \* seconds since the last successful GET /api/status
    winGets,     \* GET /api/status issued in the current freshness window
    servoPosts,  \* POST /api/servo issued since the operator last moved the slider
    posts        \* POSTs issued by the script run that is executing, or that the
                 \* rerun of post_control has just ended

vars == <<pc, data, trend_data, cache, slept, pending, slider, cmd, screen, run,
          okAge, winGets, servoPosts, posts>>

\* ---------------------------------------------------------- widget identity
\* Streamlit identifies a widget by its constructor arguments: a button by its
\* label, the select_slider by its label, options and default value.
ModeButton(d) == <<"mode", Get(d, "mode", "N/A")>>
ResetButton == <<"reset", "">>
StageButton(stage) == <<"stage", stage>>
ManualButton(endpoint) == <<endpoint, "">>
\* "I CONFIRM, Reset Now": created only inside `if reset_btn:`, with
\* type="danger", which st.button rejects with an exception.
ConfirmButton == <<"confirm", "">>

NoSlider == [base |-> -1, val |-> -1]
NoCmd == [endpoint |-> "", payload |-> None]
BlankScreen == [overview |-> FALSE, chart |-> "none", disabled |-> {},
                buttons |-> {}, slider |-> -1]

NewRun(trigger) == [trigger |-> trigger, poll |-> "none", waited |-> 0]
NoRun == NewRun("")

\* ------------------------------------------------------------ get_status
\* A get_status without a working ttl check: every call goes to the network.
CacheFresh_NeverServed(c) == FALSE

\* A ttl check that still serves an entry exactly ttl seconds old.
CacheFresh_Inclusive(c) == c.valid /\ c.age <= REFRESH_RATE_SECONDS

\* st.cache_data(ttl=...): an entry is served while it is younger than ttl.
CacheFresh(c) == c.valid /\ c.age < REFRESH_RATE_SECONDS

\* What requests.get + raise_for_status can do: answer with a JSON body, or
\* raise a RequestException (timeout, refusal, non-success status).
RequestError == [ok |-> FALSE, body |-> None]
StatusResponses == { [ok |-> TRUE, body |-> p] : p \in StatusPayloads } \cup {RequestError}

\* The body of get_status: the payload on success, None when requests raised.
get_status(resp) == IF resp.ok THEN resp.body ELSE None

\* The entry the decorator holds after the wrapped function returned `value`:
\* st.cache_data stores whatever the function returns, None included.
CacheStore(c, value) == [valid |-> TRUE, value |-> value, age |-> 0]

GetStatus ==
    /\ pc = "start"
    /\ IF CacheFresh(cache)
       THEN /\ data' = cache.value
            /\ run' = [run EXCEPT !.poll = "hit"]
            /\ UNCHANGED <<cache, okAge, winGets>>
       ELSE \E resp \in StatusResponses :
            /\ data' = get_status(resp)
            /\ cache' = CacheStore(cache, get_status(resp))
            /\ run' = [run EXCEPT !.poll = IF resp.ok THEN "fetched" ELSE "failed"]
            /\ okAge' = IF resp.ok THEN 0 ELSE okAge
            /\ winGets' = IF okAge < REFRESH_RATE_SECONDS
                          THEN Min(winGets + 1, MaxWindowGets)
                          ELSE IF resp.ok THEN 1 ELSE 0
    /\ pc' = "trend"
    /\ screen' = BlankScreen
    /\ UNCHANGED <<trend_data, slept, pending, slider, cmd, servoPosts>>
    /\ posts' = 0

\* ---------------------------------------------------------- get_trend_data
GetTrend ==
    /\ pc = "trend"
    /\ \E t \in TrendOutcomes : trend_data' = t
    /\ pc' = "render"
    /\ run' = NoRun
    /\ UNCHANGED <<data, cache, slept, pending, slider, cmd, screen,
                   okAge, winGets, servoPosts, posts>>

\* ------------------------------------------------------- display_dashboard
current_mode(d) == Get(d, "mode", "N/A")
current_stage(d) == Get(d, "stage", "N/A")
current_angle(d) == Get(d, "servo_angle", 0)

\* "Disable buttons if already in that stage"
StageDisabled(cur, stage) == cur = stage

\* A guard that only excludes AUTO instead of requiring MANUAL.
ManualVisible_NotAuto(d) == current_mode(d) # "AUTO"

\* data.get('mode') == 'MANUAL'
ManualVisible(d) == "mode" \in DOMAIN d /\ d["mode"] = "MANUAL"

\* The select_slider returns its stored value while its identity (which
\* includes value=current_angle) is unchanged, else its default.
new_angle(d, sl) == IF sl.base = current_angle(d) THEN sl.val ELSE current_angle(d)

\* A trend section without the try/except around the DataFrame.
Chart_Uncaught(trend) ==
    CASE trend = "aligned" -> "line_chart"
      [] trend \in {"ragged", "missing_key"} -> "exception"
      [] OTHER -> "info"

\* The trend section: a chart, the caught-exception error, or the info note.
Chart(trend) ==
    CASE trend = "aligned" -> "line_chart"
      [] trend \in {"ragged", "missing_key"} -> "error"
      [] OTHER -> "info"

\* Page order of the controls: 1 mode button, 2 reset button, 3..5 the stage
\* buttons, 6 the slider, 7..10 the manual toggles, 11 the end of the page.
EndOfPage == 11

\* st.button returns True for a button whose click is pending; the `disabled`
\* flag only greys the button out in the browser.
Clicked(w, pend) == w \in pend

FirstOf(S) == CHOOSE i \in S : \A j \in S : i <= j

\* The first control, in page order, that leaves the script: a clicked
\* button, or the slider when its value differs from the snapshot's angle.
FirePos(d, pend, sl) ==
    LET stageHits == { i \in 1..3 : Clicked(StageButton(STAGES[i]), pend) }
        manualHits == { j \in 1..4 : Clicked(ManualButton(ManualEndpoints[j]), pend) }
    IN  IF Clicked(ModeButton(d), pend) THEN 1
        ELSE IF Clicked(ResetButton, pend) THEN 2
        ELSE IF stageHits # {} THEN 2 + FirstOf(stageHits)
        ELSE IF new_angle(d, sl) # current_angle(d) THEN 6
        ELSE IF ManualVisible(d) /\ manualHits # {} THEN 6 + FirstOf(manualHits)
        ELSE EndOfPage

\* A slider branch that posts the snapshot's angle instead of the selected one.
CmdAt_SendsCurrent(d, sl, p) ==
    CASE p = 1 -> [endpoint |-> "mode", payload |-> None]
      [] p \in 3..5 -> [endpoint |-> "stage", payload |-> [stage |-> STAGES[p - 2]]]
      [] p = 6 -> [endpoint |-> "servo", payload |-> [angle |-> current_angle(d)]]
      [] OTHER -> [endpoint |-> ManualEndpoints[p - 6], payload |-> None]

\* The post_control call made by the control at page position p.
CmdAt(d, sl, p) ==
    CASE p = 1 -> [endpoint |-> "mode", payload |-> None]
      [] p \in 3..5 -> [endpoint |-> "stage", payload |-> [stage |-> STAGES[p - 2]]]
      [] p = 6 -> [endpoint |-> "servo", payload |-> [angle |-> new_angle(d, sl)]]
      [] OTHER -> [endpoint |-> ManualEndpoints[p - 6], payload |-> None]

\* The page a run that left the script at position p has drawn.
ScreenAt(d, trend, p) ==
    [overview |-> TRUE,
     chart |-> Chart(trend),
     disabled |-> { STAGES[i] : i \in { k \in 1..3 : 2 + k <= p /\ StageDisabled(current_stage(d), STAGES[k]) } },
     buttons |-> {ModeButton(d)}
                 \cup (IF p >= 2 THEN {ResetButton} ELSE {})
                 \cup { StageButton(STAGES[i]) :
                          i \in { k \in 1..3 : 2 + k <= p /\ ~StageDisabled(current_stage(d), STAGES[k]) } }
                 \cup (IF ManualVisible(d)
                       THEN { ManualButton(ManualEndpoints[j]) : j \in { k \in 1..4 : 6 + k <= p } }
                       ELSE {}),
     slider |-> IF p >= 6 THEN current_angle(d) ELSE -1]

\* A script that goes on to the page without a snapshot.
Stopped_Never(d) == FALSE

\* `if data is None: st.stop()`
Stopped(d) == d = None

\* From `if data is None` to the end of display_dashboard, up to the point
\* where the run leaves the script: st.stop, the exception raised by the
\* confirm button of the reset branch, a post_control call, or time.sleep.
Render ==
    /\ pc = "render"
    /\ pending' = {}
    /\ IF Stopped(data)
       THEN /\ pc' = "stopped"
            /\ screen' = BlankScreen
            /\ slider' = NoSlider
            /\ UNCHANGED <<cmd, slept>>
       ELSE LET p == FirePos(data, pending, slider) IN
            /\ screen' = ScreenAt(data, trend_data, p)
            /\ slider' = IF p >= 6 /\ slider.base = current_angle(data) THEN slider ELSE NoSlider
            /\ IF p = 2 THEN pc' = "crashed" /\ UNCHANGED <<cmd, slept>>
               ELSE IF p = EndOfPage THEN pc' = "sleep" /\ slept' = 0 /\ UNCHANGED cmd
               ELSE pc' = "post" /\ cmd' = CmdAt(data, slider, p) /\ UNCHANGED slept
    /\ trend_data' = "none"
    /\ UNCHANGED <<data, cache, run, okAge, winGets, servoPosts, posts>>

\* ------------------------------------------------------------ post_control

\* A post_control without the rerun: it returns into display_dashboard.
AfterPost_Returns == "render"

\* st.experimental_rerun() ends the run: the script restarts from the top.
AfterPost == "start"

\* The POST succeeds or raises; either way the toast is followed by
\* st.experimental_rerun(), which restarts the script at once.
PostControl ==
    /\ pc = "post"
    /\ \E ok \in BOOLEAN : run' = NewRun(IF ok THEN "cmd_ok" ELSE "cmd_fail")
    /\ servoPosts' = IF cmd.endpoint = "servo"
                     THEN Min(servoPosts + 1, MaxServoPosts) ELSE servoPosts
    /\ cmd' = NoCmd
    /\ pc' = AfterPost
    /\ UNCHANGED <<data, trend_data, cache, slept, pending, slider, screen, okAge, winGets>>
    /\ posts' = Min(posts + 1, MaxRunPosts)

\* ------------------------------------------------------- auto-refresh logic
\* time.sleep(REFRESH_RATE_SECONDS) has elapsed: st.experimental_rerun().
WakeUp ==
    /\ pc = "sleep"
    /\ slept >= REFRESH_RATE_SECONDS
    /\ pc' = "start"
    /\ run' = NewRun("timer")
    /\ UNCHANGED <<data, trend_data, cache, slept, pending, slider, cmd, screen,
                   okAge, winGets, servoPosts, posts>>

\* One second passes.  The script only takes time where it blocks: in the
\* network calls and in time.sleep; a halted script just sits there.
Tick ==
    /\ pc # "render"
    /\ cache' = [cache EXCEPT !.age = Min(cache.age + 1, REFRESH_RATE_SECONDS)]
    /\ okAge' = Min(okAge + 1, REFRESH_RATE_SECONDS)
    /\ slept' = IF pc = "sleep" THEN Min(slept + 1, REFRESH_RATE_SECONDS) ELSE slept
    /\ run' = IF pc = "start" THEN [run EXCEPT !.waited = 1] ELSE run
    /\ UNCHANGED <<pc, data, trend_data, pending, slider, cmd, screen, winGets, servoPosts, posts>>

\* ---------------------------------------------------------------- operator
\* The operator clicks an enabled button of the page.  While the script
\* sleeps the click waits for the rerun at the end of the sleep; on a page
\* whose script has crashed it starts a run at once.
Click ==
    /\ pc \in {"sleep", "crashed"}
    /\ Cardinality(pending) < MaxPending
    /\ \E w \in screen.buttons \ pending : pending' = pending \cup {w}
    /\ IF pc = "crashed"
       THEN pc' = "start" /\ run' = NewRun("operator")
       ELSE UNCHANGED <<pc, run>>
    /\ UNCHANGED <<data, trend_data, cache, slept, slider, cmd, screen,
                   okAge, winGets, servoPosts, posts>>

\* The operator drags the vent-angle slider to another option.
MoveSlider ==
    /\ pc = "sleep"
    /\ screen.slider # -1
    /\ \E a \in servo_options :
         /\ a # (IF slider.base = screen.slider THEN slider.val ELSE screen.slider)
         /\ slider' = [base |-> screen.slider, val |-> a]
    /\ servoPosts' = 0
    /\ UNCHANGED <<pc, data, trend_data, cache, slept, pending, cmd, screen, run,
                   okAge, winGets, posts>>

\* The operator reloads the page of a halted script: a new session (fresh
\* widget state) of the same server process (same st.cache_data store).
Reload ==
    /\ pc \in {"stopped", "crashed"}
    /\ pc' = "start"
    /\ run' = NewRun("operator")
    /\ pending' = {}
    /\ slider' = NoSlider
    /\ screen' = BlankScreen
    /\ UNCHANGED <<data, trend_data, cache, slept, cmd, okAge, winGets, servoPosts, posts>>

\* ------------------------------------------------------------ specification
Init ==
    /\ pc = "start"
    /\ data = None
    /\ trend_data = "none"
    /\ cache = [valid |-> FALSE, value |-> None, age |-> REFRESH_RATE_SECONDS]
    /\ slept = 0
    /\ pending = {}
    /\ slider = NoSlider
    /\ cmd = NoCmd
    /\ screen = BlankScreen
    /\ run = NewRun("first")
    /\ okAge = REFRESH_RATE_SECONDS
    /\ winGets = 0
    /\ servoPosts = 0
    /\ posts = 0

Next ==
    \/ GetStatus
    \/ GetTrend
    \/ Render
    \/ PostControl
    \/ WakeUp
    \/ Tick
    \/ Click
    \/ MoveSlider
    \/ Reload

Spec == Init /\ [][Next]_vars

\* The script runner keeps executing the script and time keeps passing; the
\* operator is under no obligation to do anything.
FairSpec ==
    Spec /\ WF_vars(GetStatus) /\ WF_vars(GetTrend) /\ WF_vars(Render)
         /\ WF_vars(PostControl) /\ WF_vars(WakeUp) /\ WF_vars(Tick)

TypeOK ==
    /\ pc \in {"start", "trend", "render", "post", "sleep", "stopped", "crashed"}
    /\ data \in StatusPayloads \cup {None}
    /\ trend_data \in TrendOutcomes
    /\ cache.age \in 0..REFRESH_RATE_SECONDS
    /\ slept \in 0..REFRESH_RATE_SECONDS
    /\ okAge \in 0..REFRESH_RATE_SECONDS
    /\ winGets \in 0..MaxWindowGets
    /\ servoPosts \in 0..MaxServoPosts
    /\ posts \in 0..MaxRunPosts

\* ------------------------------------------------------------------ claims
ManualCommands == { ManualEndpoints[j] : j \in 1..4 }
StageSet == { STAGES[i] : i \in 1..3 }

\* C1: the refresh loop never terminates itself because of a failed cycle:
\* once a run's status fetch has failed, the script eventually arrives at
\* another get_status call on its own, with no operator action needed
\* (checked under FairSpec, where only the script and the clock are fair).
C1_FailedCycleLeadsToPoll ==
    (pc = "trend" /\ run.poll = "failed") ~> (pc = "start")

\* C2: a failed status fetch never writes to the status cache: the step of
\* get_status whose network call fails leaves the cache entry as it was (the
\* failure result is not stored) and returns the failure to the caller.
C2_FailedFetchKeepsCache ==
    [][(run.poll # "failed" /\ run'.poll = "failed")
         => (cache' = cache /\ data' = None)]_vars

\* C3: after a successful command dispatch the get_status call of the
\* immediately following run issues a GET /api/status, even when the cached
\* snapshot is still inside its freshness window.
C3_CommandForcesFreshPoll ==
    (pc = "trend" /\ run.trigger = "cmd_ok") => run.poll \in {"fetched", "failed"}

\* C4: one selection of a vent angle that differs from the snapshot's
\* servo_angle issues exactly one POST /api/servo: never a second one until
\* the operator moves the slider again.
C4_OneServoPostPerSelection == servoPosts <= 1

\* C5: a command whose POST fails does not force a rerun: no run is ever
\* started by a failed post_control, the next run starts at the timer tick.
C5_FailedCommandDoesNotRerun == run.trigger # "cmd_fail"

C7_SettleDelayBeforeRepoll ==
    (pc = "trend" /\ run.trigger = "cmd_ok" /\ run.poll \in {"fetched", "failed"})
        => run.waited >= 1

\* C8: a manual-override command (fan1_toggle, fan2_toggle, heater1_toggle,
\* heater2_toggle) is dispatched only in a run whose status snapshot has
\* mode equal to "MANUAL".
C8_ManualCommandsOnlyInManual ==
    (pc = "post" /\ cmd.endpoint \in ManualCommands)
        => ("mode" \in DOMAIN data /\ data["mode"] = "MANUAL")

\* C8 witness: a manual toggle is being dispatched.
C8_Witness == pc = "post" /\ cmd.endpoint = "heater2_toggle"

\* C9: partial failure renders the successful half: a run whose status
\* fetch succeeded and whose trend fetch failed draws the status metrics and
\* controls, and a run whose trend fetch succeeded and whose status fetch
\* failed still draws the trend chart.
C9_PartialFailureRendersHalf ==
    [][(pc = "render" /\ pc' # "render")
         => /\ (data # None /\ trend_data = "none") => screen'.overview
            /\ (data = None /\ trend_data = "aligned") => screen'.chart = "line_chart"]_vars

\* C10: a stage button is disabled exactly when its stage equals the
\* snapshot's current stage (so one button is disabled when the current
\* stage is one of the three stages, none otherwise), and a stage command
\* whose payload equals the snapshot's current stage is never dispatched.
C10_StageButtons ==
    /\ pc = "sleep" =>
         /\ screen.disabled = { s \in StageSet : s = current_stage(data) }
         /\ Cardinality(screen.disabled) = (IF current_stage(data) \in StageSet THEN 1 ELSE 0)
    /\ (pc = "post" /\ cmd.endpoint = "stage") => cmd.payload.stage # current_stage(data)

\* C11: every POST /api/servo carries an angle that is one of the slider's
\* options {0, 45, 90, 180} and that differs from the servo_angle of the
\* status snapshot of the run that issues it.
C11_ServoPostAngle ==
    (pc = "post" /\ cmd.endpoint = "servo")
        => /\ cmd.payload.angle \in {0, 45, 90, 180}
           /\ cmd.payload.angle # Get(data, "servo_angle", 0)

\* C11 witness: a servo command is being dispatched from a run whose
\* snapshot reports a servo_angle.
C11_Witness ==
    /\ pc = "post" /\ cmd.endpoint = "servo"
    /\ "servo_angle" \in DOMAIN data /\ cmd.payload.angle = 180

\* ==========================================================================
\* The status view: get_status's uptime string and the overview / readings
\* metrics of display_dashboard, as functions of one status payload.  They
\* are checked on their own, under ViewSpec, over payloads that carry every
\* field of the API in every present/absent combination.
\* ==========================================================================

\* Largest next_temp_increase (seconds) tried, in both directions from 0.
MaxCountdown == 125

ViewKeys ==
    {"mode", "stage", "temperature", "humidity", "target_temp", "next_temp_increase",
     "servo_angle", "fan_on", "fan_on_2", "dehumidifier_on", "dehumidifier_on_2",
     "buzzer_on", "uptime"}

\* One or two values per field; measurements are in tenths (38.5 is 385),
\* and 30 is a servo_angle the slider does not offer.
ViewFull ==
    [mode : {"AUTO", "MANUAL"}, stage : {"LEAF_DRYING"}, temperature : {385},
     humidity : {702}, target_temp : {400}, next_temp_increase : {125},
     servo_angle : {90, 30}, fan_on : BOOLEAN, fan_on_2 : BOOLEAN,
     dehumidifier_on : {TRUE}, dehumidifier_on_2 : {FALSE}, buzzer_on : {TRUE},
     uptime : {3725}]

ViewPayloads == { [k \in K |-> full[k]] : K \in SUBSET ViewKeys, full \in ViewFull }

\* Payloads that carry only a countdown, over a range of whole seconds and a
\* few values around one hour and around a hundred minutes.
CountdownPayloads ==
    { [k \in {"next_temp_increase"} |-> n] :
        n \in ((0 - MaxCountdown)..MaxCountdown) \cup {3599, 3600, 5999, 6000} }

\* Text is a sequence of characters.
NA == <<"N", "/", "A">>

DigitChar(d) == <<"0", "1", "2", "3", "4", "5", "6", "7", "8", "9">>[d + 1]

\* str(n) of a natural number.
RECURSIVE Digits(_)
Digits(n) == IF n < 10 THEN <<DigitChar(n)>> ELSE Digits(n \div 10) \o <<DigitChar(n % 10)>>

\* f"{n:02d}"
Pad2(n) == IF n < 10 THEN <<"0">> \o Digits(n) ELSE Digits(n)

\* f"{x:.1f}" of a measurement held in tenths.
Fixed1(tenths) == Digits(tenths \div 10) \o <<".">> \o Digits(tenths % 10)

\* str(timedelta(seconds=u)).split('.')[0], for less than a day.
uptime_str(uptime_seconds) ==
    Digits(uptime_seconds \div 3600) \o <<":">> \o Pad2((uptime_seconds % 3600) \div 60)
        \o <<":">> \o Pad2(uptime_seconds % 60)

\* The payload get_status returns: the response body plus 'uptime_str'.
WithUptime(d) ==
    [k \in DOMAIN d \cup {"uptime_str"} |->
        IF k = "uptime_str" THEN uptime_str(Get(d, "uptime", 0)) ELSE d[k]]

\* A countdown that also formats zero as 00:00.
next_increase_str_ZeroShown(next_increase_sec) ==
    IF next_increase_sec >= 0
    THEN Pad2(next_increase_sec \div 60) \o <<":">> \o Pad2(next_increase_sec % 60)
    ELSE NA

\* "Calculate time until next temperature increase"
next_increase_str(next_increase_sec) ==
    IF next_increase_sec > 0
    THEN Pad2(next_increase_sec \div 60) \o <<":">> \o Pad2(next_increase_sec % 60)
    ELSE NA

\* An actuator read with a default of True.
Truthy_AbsentIsOn(d, k) == k \notin DOMAIN d \/ d[k]

\* Truth value of data.get(k) for a boolean field: a missing key gives None.
Truthy(d, k) == k \in DOMAIN d /\ d[k]

OnOff(b) == IF b THEN "ON" ELSE "OFF"

\* .replace('_', ' ') on the stage names and on the default.
Spaced(stage) ==
    CASE stage = "LEAF_DRYING" -> "LEAF DRYING"
      [] stage = "MIDRIB_DRYING" -> "MIDRIB DRYING"
      [] OTHER -> stage

\* The metrics of sections 1 and 2 and the value the slider is created with.
Overview(d) ==
    [mode |-> Get(d, "mode", "N/A"),
     stage |-> Spaced(Get(d, "stage", "N/A")),
     uptime |-> Get(d, "uptime_str", NA),
     next_increase |-> next_increase_str(Get(d, "next_temp_increase", 0)),
     temperature |-> Fixed1(Get(d, "temperature", 0)),
     target |-> IF "mode" \in DOMAIN d /\ d["mode"] = "AUTO"
                THEN Fixed1(Get(d, "target_temp", 0)) ELSE NA,
     humidity |-> Fixed1(Get(d, "humidity", 0)),
     heaters |-> OnOff(Truthy(d, "dehumidifier_on") \/ Truthy(d, "dehumidifier_on_2")),
     fans |-> OnOff(Truthy(d, "fan_on") \/ Truthy(d, "fan_on_2")),
     alarm |-> Truthy(d, "buzzer_on"),
     fan1 |-> OnOff(Truthy(d, "fan_on")),
     heater1 |-> OnOff(Truthy(d, "dehumidifier_on")),
     fan2 |-> OnOff(Truthy(d, "fan_on_2")),
     heater2 |-> OnOff(Truthy(d, "dehumidifier_on_2")),
     vent |-> Get(d, "servo_angle", 0)]

\* get_status, after response.json(): the uptime string is added.
Normalize ==
    /\ pc = "fetched"
    /\ data' = WithUptime(data)
    /\ pc' = "render"
    /\ UNCHANGED <<trend_data, cache, slept, pending, slider, cmd, screen, run,
                   okAge, winGets, servoPosts, posts>>

\* display_dashboard on a snapshot with no control touched: the metrics, then
\* the slider, which raises when its value is not one of its options.
RenderOverview ==
    /\ pc = "render"
    /\ screen' = Overview(data)
    /\ pc' = IF Get(data, "servo_angle", 0) \in servo_options THEN "rendered" ELSE "crashed"
    /\ UNCHANGED <<data, trend_data, cache, slept, pending, slider, cmd, run,
                   okAge, winGets, servoPosts, posts>>

ViewInit ==
    /\ pc = "fetched"
    /\ data \in ViewPayloads \cup CountdownPayloads
    /\ trend_data = "none"
    /\ cache = [valid |-> FALSE, value |-> None, age |-> REFRESH_RATE_SECONDS]
    /\ slept = 0
    /\ pending = {}
    /\ slider = NoSlider
    /\ cmd = NoCmd
    /\ screen = BlankScreen
    /\ run = NewRun("first")
    /\ okAge = REFRESH_RATE_SECONDS
    /\ winGets = 0
    /\ servoPosts = 0
    /\ posts = 0

ViewNext ==
    \/ Normalize
    \/ RenderOverview

ViewSpec == ViewInit /\ [][ViewNext]_vars

\* C12: for every status payload in which any subset of the optional fields
\* is absent (and whose servo_angle, when present, is one the slider offers),
\* the run draws the page without error and shows each absent field with its
\* default: "N/A" for mode, stage and the countdown, 0.0 for the
\* measurements, OFF / no alarm for the actuator booleans, 0 for the vent
\* angle and 0:00:00 for the uptime.
C12_AbsentFieldsGetDefaults ==
    (pc \in {"rendered", "crashed"}
       /\ ("servo_angle" \in DOMAIN data => data["servo_angle"] \in {0, 45, 90, 180}))
    => /\ pc = "rendered"
       /\ "mode" \notin DOMAIN data => screen.mode = "N/A" /\ screen.target = <<"N", "/", "A">>
       /\ "stage" \notin DOMAIN data => screen.stage = "N/A"
       /\ "temperature" \notin DOMAIN data => screen.temperature = <<"0", ".", "0">>
       /\ "humidity" \notin DOMAIN data => screen.humidity = <<"0", ".", "0">>
       /\ ("target_temp" \notin DOMAIN data /\ "mode" \in DOMAIN data /\ data["mode"] = "AUTO")
             => screen.target = <<"0", ".", "0">>
       /\ "next_temp_increase" \notin DOMAIN data => screen.next_increase = <<"N", "/", "A">>
       /\ "servo_angle" \notin DOMAIN data => screen.vent = 0
       /\ "fan_on" \notin DOMAIN data => screen.fan1 = "OFF"
       /\ "fan_on_2" \notin DOMAIN data => screen.fan2 = "OFF"
       /\ "dehumidifier_on" \notin DOMAIN data => screen.heater1 = "OFF"
       /\ "dehumidifier_on_2" \notin DOMAIN data => screen.heater2 = "OFF"
       /\ ("fan_on" \notin DOMAIN data /\ "fan_on_2" \notin DOMAIN data) => screen.fans = "OFF"
       /\ ("dehumidifier_on" \notin DOMAIN data /\ "dehumidifier_on_2" \notin DOMAIN data)
             => screen.heaters = "OFF"
       /\ "buzzer_on" \notin DOMAIN data => ~screen.alarm
       /\ "uptime" \notin DOMAIN data => screen.uptime = <<"0", ":", "0", "0", ":", "0", "0">>

\* C12 witness: the page has been drawn from the payload with no field at all.
C12_Witness == pc = "rendered" /\ DOMAIN data = {"uptime_str"} /\ screen.fans = "OFF"

\* The number a sequence of digit characters denotes.
RECURSIVE DigitsValue(_)
DigitsValue(s) ==
    IF s = <<>> THEN 0
    ELSE 10 * DigitsValue(SubSeq(s, 1, Len(s) - 1))
         + (CHOOSE d \in 0..9 : DigitChar(d) = s[Len(s)])

\* C14: for every integer next_temp_increase n the countdown is "N/A" when
\* n <= 0 or the field is absent, and otherwise the minutes n div 60 in at
\* least two digits, a colon, and the seconds n mod 60 in two digits
\* (125 gives "02:05").
C14_Countdown ==
    pc = "rendered" =>
        LET n == Get(data, "next_temp_increase", 0)
            s == screen.next_increase
        IN  /\ n <= 0 => s = <<"N", "/", "A">>
            /\ n > 0 =>
                 /\ Len(s) >= 5
                 /\ s[Len(s) - 2] = ":"
                 /\ DigitsValue(SubSeq(s, 1, Len(s) - 3)) = n \div 60
                 /\ DigitsValue(SubSeq(s, Len(s) - 1, Len(s))) = n % 60
            /\ n = 125 => s = <<"0", "2", ":", "0", "5">>

\* C14 witness: 125 seconds have been drawn as 02:05.
C14_Witness ==
    /\ pc = "rendered" /\ "next_temp_increase" \in DOMAIN data
    /\ data["next_temp_increase"] = 125 /\ screen.next_increase = <<"0", "2", ":", "0", "5">>

\* C13: a malformed trend payload (ragged arrays, or a missing series key
\* beside a non-empty 'timestamps') never aborts the cycle: in a run that has
\* a status snapshot the chart area shows the error state, the metrics and
\* the controls are drawn, and, no control asking for a command, the run
\* reaches the sleep that leads to the next tick.
C13_MalformedTrendIsContained ==
    [][(pc = "render" /\ pc' # "render" /\ data # None
          /\ trend_data \in {"ragged", "missing_key"})
         => /\ screen'.chart = "error"
            /\ screen'.overview
            /\ <<"mode", Get(data, "mode", "N/A")>> \in screen'.buttons
            /\ (pending = {} /\ slider.base # Get(data, "servo_angle", 0))
                 => /\ pc' = "sleep"
                    /\ <<"reset", "">> \in screen'.buttons
                    /\ screen'.slider = Get(data, "servo_angle", 0)]_vars

\* C13 witness: a run is asleep on a page that shows the metrics, all the
\* controls and the chart's error state.
C13_Witness ==
    /\ pc = "sleep" /\ screen.chart = "error" /\ screen.overview
    /\ screen.slider # -1 /\ <<"heater2_toggle", "">> \in screen.buttons

\* C16: the reset command is issuable: when the operator has pressed
\* 'Reset System State', the run that handles the click either offers the
\* confirmation button, whose press sends one POST /api/reset, or sends it.
C16_ResetIsIssuable ==
    [][(pc = "render" /\ data # None /\ <<"reset", "">> \in pending
          /\ <<"mode", Get(data, "mode", "N/A")>> \notin pending)
         => \/ ConfirmButton \in screen'.buttons
            \/ (pc' = "post" /\ cmd'.endpoint = "reset")]_vars

\* C17: bounded staleness: whenever get_status returns a snapshot, that
\* snapshot was fetched from the controller strictly less than
\* REFRESH_RATE_SECONDS ago.
C17_BoundedStaleness ==
    [][(pc = "start" /\ pc' = "trend" /\ data' # None)
         => okAge' < REFRESH_RATE_SECONDS]_vars

\* C17 witness: a command-triggered rerun has been served a cached snapshot
\* that is two seconds old.
C17_Witness ==
    /\ pc = "trend" /\ run.poll = "hit" /\ data # None
    /\ run.trigger \in {"cmd_ok", "cmd_fail"} /\ okAge = REFRESH_RATE_SECONDS - 1

\* C18: no command is dispatched from a run that has no status snapshot:
\* when get_status returned None, post_control is never reached.
C18_NoCommandWithoutSnapshot == pc = "post" => data # None

\* C18 witness: a run whose get_status returned None is about to evaluate the
\* page while a button click is waiting to be handled.
C18_Witness == pc = "render" /\ data = None /\ pending # {}

\* C19: at most one command POST is issued per script run: post_control
\* issues one POST and the forced rerun ends the run, so no control later in
\* page order is dispatched by the same run.
C19_OnePostPerRun ==
    /\ posts <= 1
    /\ pc \in {"render", "post", "sleep", "stopped", "crashed"} => posts = 0

\* C19 witness: a run has been ended by the rerun of post_control after its
\* one POST, and the next run has not started yet.
C19_Witness == pc = "start" /\ posts = 1 /\ run.trigger \in {"cmd_ok", "cmd_fail"}

====
